---- MODULE Spec2Model ----
(***************************************************************************)
(* ALICE ORACLE: the four server variants of the repository                *)
(*   index    src/index.js          Dexscreener small caps, no cache       *)
(*   part000  src/unnamed/part_000  Dexscreener small caps, cache + retry  *)
(*   server   src/server.js         CoinGecko trending, mock fallback      *)
(*   part001  src/unnamed/part_001  Pump.fun micro caps, synthetic gems    *)
(* Each component of the program is one record-valued variable; each       *)
(* specification below drives one component and leaves the others idle.    *)
(***************************************************************************)
EXTENDS Integers, Sequences, FiniteSets, TLC

VARIABLES gate, fetch, moon, kpx, score, rules, srv, gems, pairs

vars == <<gate, fetch, moon, kpx, score, rules, srv, gems, pairs>>

Variants == {"index", "part000", "server", "part001"}

\* JavaScript's undefined / null, for a field that is missing
Undefined == "undefined"

(***************************************************************************)
(* GATED ACCESS                                                            *)
(***************************************************************************)

\* src/index.js:25, src/unnamed/part_000:30, src/server.js:17
VALID_CODES_main ==
  {"ALICE2025", "DIAMOND_HANDS", "ALPHA_ONLY",
   "INVESTOR_001", "INVESTOR_002", "INVESTOR_003", "INVESTOR_004", "INVESTOR_005",
   "BETA_TESTER_01", "BETA_TESTER_02", "BETA_TESTER_03", "BETA_TESTER_04",
   "BETA_TESTER_05"}

\* src/unnamed/part_001:17
VALID_CODES_part001 ==
  {"ALICE2025", "DIAMOND_HANDS", "ALPHA_ONLY", "MOON_MISSION",
   "INVESTOR_001", "INVESTOR_002", "INVESTOR_003", "INVESTOR_004",
   "BETA_TESTER_01", "BETA_TESTER_02", "BETA_TESTER_03"}

VALID_CODES(v) == IF v = "part001" THEN VALID_CODES_part001 ELSE VALID_CODES_main

\* The codes a client presents: two codes valid everywhere, one valid only in
\* part_001, one valid everywhere but in part_001, an unknown code, the empty
\* string and a body with no code at all.
Codes == {"ALICE2025", "DIAMOND_HANDS", "MOON_MISSION", "INVESTOR_005",
          "WRONG_CODE", "", Undefined}

\* the number of validate-code requests of one run of the model
MaxRequests == 4

\* !code
Falsy(code) == code \in {"", Undefined}

MsgNoCode(v) == IF v \in {"part000", "part001"} THEN "No access code"
                ELSE "No access code provided"
MsgGranted == "Access granted"
MsgGrantedDev(v) == IF v \in {"part000", "part001"} THEN "Access granted (dev)"
                    ELSE "Access granted"
MsgUsed(v) == IF v = "part001" THEN "Code already used" ELSE "Access code already used"
MsgInvalid(v) == IF v = "part001" THEN "Invalid code" ELSE "Invalid access code"
MsgBadJson(v) == IF v = "part000" THEN "Bad JSON"
                 ELSE IF v = "part001" THEN "Bad request" ELSE "Invalid request"

Reply(valid, message, used) == [valid |-> valid, message |-> message, used |-> used]

\* a validation that grants a valid code and forgets to record it
validateNoConsume(v, dev, used, code) ==
  IF Falsy(code) THEN Reply(FALSE, MsgNoCode(v), used)
  ELSE IF dev /\ code \in VALID_CODES(v) THEN Reply(TRUE, MsgGrantedDev(v), used)
  ELSE IF code \notin VALID_CODES(v) THEN Reply(FALSE, MsgInvalid(v), used)
  ELSE Reply(TRUE, MsgGranted, used)

\* a validation that records every code it looked up, granted or not
validateRecordAll(v, dev, used, code) ==
  IF Falsy(code) THEN Reply(FALSE, MsgNoCode(v), used)
  ELSE IF dev /\ code \in VALID_CODES(v) THEN Reply(TRUE, MsgGrantedDev(v), used)
  ELSE IF code \in used THEN Reply(FALSE, MsgUsed(v), used)
  ELSE IF code \notin VALID_CODES(v) THEN Reply(FALSE, MsgInvalid(v), used \cup {code})
  ELSE Reply(TRUE, MsgGranted, used \cup {code})

\* index.js, server.js and part_001: the used check comes before the valid check
validateAndConsumeCode(v, dev, used, code) ==
  IF Falsy(code) THEN Reply(FALSE, MsgNoCode(v), used)
  ELSE IF dev /\ code \in VALID_CODES(v) THEN Reply(TRUE, MsgGrantedDev(v), used)
  ELSE IF code \in used THEN Reply(FALSE, MsgUsed(v), used)
  ELSE IF code \notin VALID_CODES(v) THEN Reply(FALSE, MsgInvalid(v), used)
  ELSE Reply(TRUE, MsgGranted, used \cup {code})

\* part_000: the valid check comes before the used check
validateCode(v, dev, used, code) ==
  IF Falsy(code) THEN Reply(FALSE, MsgNoCode(v), used)
  ELSE IF dev /\ code \in VALID_CODES(v) THEN Reply(TRUE, MsgGrantedDev(v), used)
  ELSE IF code \notin VALID_CODES(v) THEN Reply(FALSE, MsgInvalid(v), used)
  ELSE IF code \in used THEN Reply(FALSE, MsgUsed(v), used)
  ELSE Reply(TRUE, MsgGranted, used \cup {code})

Validate(v, dev, used, code) ==
  IF v = "part000" THEN validateCode(v, dev, used, code)
  ELSE validateAndConsumeCode(v, dev, used, code)

\* tokens: the response carries token data (items / tokens of a scan)
NoRequest == [code |-> Undefined, wasUsed |-> FALSE, valid |-> FALSE,
              message |-> "", status |-> 0, tokens |-> FALSE]

GateIdle == [variant |-> "index", dev |-> FALSE, USED_CODES |-> {},
             grants |-> [c \in Codes |-> 0], n |-> 0, last |-> NoRequest]

\* the process starts: NODE_ENV is fixed for its life, no code is used yet
GateInit ==
  \E v \in Variants, dev \in BOOLEAN :
    gate = [GateIdle EXCEPT !.variant = v, !.dev = dev]

\* POST /api/validate-code with a JSON body: the handler's 'end' callback runs
\* to completion on the event loop, so the check and the add are one step
ValidateCodeRequest(code) ==
  /\ gate.n < MaxRequests
  /\ LET r == Validate(gate.variant, gate.dev, gate.USED_CODES, code)
     IN gate' = [gate EXCEPT
                   !.USED_CODES = r.used,
                   !.grants[code] = @ + (IF r.valid THEN 1 ELSE 0),
                   !.n = @ + 1,
                   !.last = [code |-> code, wasUsed |-> code \in gate.USED_CODES,
                             valid |-> r.valid, message |-> r.message,
                             status |-> IF r.valid THEN 200 ELSE 401,
                             tokens |-> FALSE]]
  /\ UNCHANGED <<fetch, moon, kpx, score, rules, srv, gems, pairs>>

\* the scan routes each variant serves
ScanRoutes(v) ==
  IF v \in {"index", "part000"} THEN {"/api/smallcaps", "/api/analyze"}
  ELSE {"/api/analyze"}

\* GET /api/smallcaps or /api/analyze: the handler runs the scan and sends
\* its result; it reads neither USED_CODES nor anything else about the caller.
\* scanned: the scan delivered (server.js: getMoonPhase throws in every scan;
\* part_001: no step of the scan can fail)
ScanRequest(route, scanned) ==
  /\ gate.n < MaxRequests
  /\ route \in ScanRoutes(gate.variant)
  /\ LET ok == CASE gate.variant = "server" -> FALSE
                 [] gate.variant = "part001" -> TRUE
                 [] OTHER -> scanned
         failed == IF gate.variant = "part000" /\ route = "/api/smallcaps"
                   THEN 502 ELSE 500
     IN gate' = [gate EXCEPT !.n = @ + 1,
                             !.last = [NoRequest EXCEPT
                                         !.status = IF ok THEN 200 ELSE failed,
                                         !.tokens = ok]]
  /\ UNCHANGED <<fetch, moon, kpx, score, rules, srv, gems, pairs>>

\* POST /api/validate-code with a body that is not JSON: 400, nothing consumed
BadJsonRequest ==
  /\ gate.n < MaxRequests
  /\ gate' = [gate EXCEPT !.n = @ + 1,
                          !.last = [NoRequest EXCEPT !.message = MsgBadJson(gate.variant),
                                                     !.status = 400]]
  /\ UNCHANGED <<fetch, moon, kpx, score, rules, srv, gems, pairs>>

(***************************************************************************)
(* RESILIENT FETCHER                                                       *)
(***************************************************************************)

\* What one HTTPS request can end in: a JSON body, a JSON body whose text
\* holds "<html", a timeout, a connection error, an HTML error page, a body
\* that is no JSON.
Outcomes == {"json", "jsonHtmlText", "timeout", "error", "html", "nonjson"}

Resolved(value) == [kind |-> value, err |-> ""]
Rejected(err) == [kind |-> "throw", err |-> err]

\* index.js fetchJSON, server.js fetchFromAPI: every path resolves
fetchJSON(outcome) ==
  CASE outcome = "json" -> Resolved("json")
    [] outcome \in {"html", "jsonHtmlText"} -> Resolved("null")
    [] outcome = "nonjson" -> Resolved("null")
    [] outcome = "timeout" -> Resolved("null")
    [] outcome = "error" -> Resolved("null")

\* part_001 fetchAPI: no HTML test, JSON.parse decides
fetchAPI(outcome) ==
  CASE outcome \in {"json", "jsonHtmlText"} -> Resolved("json")
    [] outcome \in {"html", "nonjson"} -> Resolved("null")
    [] outcome \in {"timeout", "error"} -> Resolved("null")

\* part_000 withTimeout: every failure rejects
withTimeout(outcome) ==
  CASE outcome = "json" -> Resolved("json")
    [] outcome \in {"html", "jsonHtmlText"} -> Rejected("html-response")
    [] outcome = "nonjson" -> Rejected("SyntaxError")
    [] outcome = "timeout" -> Rejected("timeout")
    [] outcome = "error" -> Rejected("error")

\* one request of the variant's fetcher
Request(v, outcome) ==
  IF v = "part000" THEN withTimeout(outcome)
  ELSE IF v = "part001" THEN fetchAPI(outcome)
  ELSE fetchJSON(outcome)

\* let delay = 250
InitialDelayMs == 250
\* attempts = 3
DefaultAttempts == 3
\* the largest attempt count a caller passes
MaxAttempts == 4

\* a backoff that grows by the initial delay instead of doubling
NextDelayLinear(delay) == delay + InitialDelayMs

\* delay *= 2
NextDelay(delay) == delay * 2

\* i === attempts-1
IsLastAttempt(i, attempts) == i = attempts - 1

NoResult == [kind |-> "pending", err |-> ""]

FetchIdle == [variant |-> "index", attempts |-> 1, i |-> 0, delay |-> InitialDelayMs,
              pc |-> "idle", outcomes |-> <<>>, waits |-> <<>>, result |-> NoResult]

FetchInit == \E v \in Variants : fetch = [FetchIdle EXCEPT !.variant = v]

\* fetchJSONWithRetry(url, attempts): delay = 250, i = 0, the loop test
\* the other variants' fetchers take no attempt count and make one request
FetchCall(attempts) ==
  /\ fetch.pc = "idle"
  /\ fetch.variant # "part000" => attempts = 1
  /\ fetch' = [fetch EXCEPT !.attempts = attempts, !.i = 0,
                            !.delay = InitialDelayMs, !.pc = "attempt"]
  /\ UNCHANGED <<gate, moon, kpx, score, rules, srv, gems, pairs>>

\* one request completes: the try of fetchJSONWithRetry returns its value, the
\* catch rethrows on the last attempt and otherwise sets the backoff timer
FetchAttempt(outcome) ==
  /\ fetch.pc = "attempt"
  /\ LET r == Request(fetch.variant, outcome)
         outs == Append(fetch.outcomes, outcome)
     IN IF r.kind # "throw"
        THEN fetch' = [fetch EXCEPT !.outcomes = outs, !.result = r, !.pc = "done"]
        ELSE IF IsLastAttempt(fetch.i, fetch.attempts)
        THEN fetch' = [fetch EXCEPT !.outcomes = outs, !.result = r, !.pc = "done"]
        ELSE fetch' = [fetch EXCEPT !.outcomes = outs, !.pc = "waiting",
                                    !.waits = Append(@, fetch.delay)]
  /\ UNCHANGED <<gate, moon, kpx, score, rules, srv, gems, pairs>>

\* the backoff timer fires: delay *= 2, i++, and the loop test i < attempts
\* (when it fails the function falls off its end and returns undefined)
FetchTimer ==
  /\ fetch.pc = "waiting"
  /\ fetch' = [fetch EXCEPT
                 !.delay = NextDelay(@),
                 !.i = @ + 1,
                 !.pc = IF fetch.i + 1 < fetch.attempts THEN "attempt" ELSE "done",
                 !.result = IF fetch.i + 1 < fetch.attempts THEN @
                            ELSE Resolved("undefined")]
  /\ UNCHANGED <<gate, moon, kpx, score, rules, srv, gems, pairs>>

(***************************************************************************)
(* COSMIC PROVIDERS: MOON PHASE                                            *)
(***************************************************************************)

phases == <<"New Moon", "Waxing Crescent", "First Quarter", "Waxing Gibbous",
            "Full Moon", "Waning Gibbous", "Last Quarter", "Waning Crescent">>

\* the first calendar year the clock of the model can show, and how many
\* years from there
BaseYear == 2025
YearSpan == 2

IsLeap(y) == y % 4 = 0 /\ (y % 100 # 0 \/ y % 400 = 0)
DaysIn(y, m) == IF m = 2 THEN (IF IsLeap(y) THEN 29 ELSE 28)
                ELSE IF m \in {4, 6, 9, 11} THEN 30 ELSE 31

\* new Date(): getFullYear(), getMonth() + 1, getDate()
Dates == {dt \in [y : BaseYear..(BaseYear + YearSpan - 1), m : 1..12, d : 1..31] :
            dt.d <= DaysIn(dt.y, dt.m)}

\* 29.5305882, the divisor of jd, counted in 1e-7 days
SynodicE7 == 295305882

\* (x * 10) mod SynodicE7 without leaving 32 bits
Times10Mod(x) == (((x * 5) % SynodicE7) * 2) % SynodicE7

\* Math.round(n * r / SynodicE7) for 0 <= r < SynodicE7: the number of k in
\* 1..n with r/SynodicE7 >= (2k-1)/(2n)
RoundFrac(r, n) ==
  LET q == SynodicE7 \div (2 * n)
      s == SynodicE7 % (2 * n)
  IN Cardinality({k \in 1..n :
                    r >= (2 * k - 1) * q + (((2 * k - 1) * s + 2 * n - 1) \div (2 * n))})

\* c + e + d - 694039.09 in hundredths of a day, after the month shift
JdHundredths(y, m, d) ==
  LET y2 == IF m < 3 THEN y - 1 ELSE y
      m2 == (IF m < 3 THEN m + 12 ELSE m) + 1
  IN 36525 * y2 + 3060 * m2 + 100 * d - 69403909

\* jd /= 29.5305882; b = parseInt(jd); jd -= b : the fraction, as a numerator
\* over SynodicE7
JdFraction(y, m, d) ==
  Times10Mod(Times10Mod(Times10Mod(Times10Mod(Times10Mod(
    JdHundredths(y, m, d) % SynodicE7)))))

MoonResult(threw, phase, illumination) ==
  [threw |-> threw, phase |-> phase, illumination |-> illumination]

\* index.js, part_000, part_001: y, m declared with let
getMoonPhase(y, m, d) ==
  LET r == JdFraction(y, m, d)
      b0 == RoundFrac(r, 8)
      b == IF b0 >= 8 THEN 0 ELSE b0
  IN MoonResult(FALSE, phases[b + 1], RoundFrac(r, 100))

\* server.js: year and month are declared const; "year--" (January, February)
\* or else "++month" is an assignment to a constant, a TypeError at run time
getMoonPhase_server(y, m, d) ==
  MoonResult(TRUE, IF m < 3 THEN "TypeError: year--" ELSE "TypeError: ++month", 0)

MoonOf(v, y, m, d) ==
  IF v = "server" THEN getMoonPhase_server(y, m, d) ELSE getMoonPhase(y, m, d)

\* the most calls of getMoonPhase() the model makes on one calendar date
MaxCallsPerDay == 2

\* hour: the clock's time of day; calls, first: the number of calls made on
\* this date and what the first of them returned
MoonIdle == [variant |-> "index", date |-> [y |-> BaseYear, m |-> 1, d |-> 1],
             hour |-> 0, pc |-> "idle", result |-> MoonResult(FALSE, Undefined, 0),
             calls |-> 0, first |-> MoonResult(FALSE, Undefined, 0)]

\* the clock shows some calendar date
MoonInit == \E v \in Variants, dt \in Dates :
              moon = [MoonIdle EXCEPT !.variant = v, !.date = dt]

\* the day after dt
Tomorrow(dt) ==
  IF dt.d < DaysIn(dt.y, dt.m) THEN [dt EXCEPT !.d = @ + 1]
  ELSE IF dt.m < 12 THEN [dt EXCEPT !.m = @ + 1, !.d = 1]
  ELSE [y |-> dt.y + 1, m |-> 1, d |-> 1]

\* a phase taken from the clock rounded to the nearest midnight
MoonAtNearestDay(v, date, hour) ==
  LET dt == IF hour >= 12 THEN Tomorrow(date) ELSE date
  IN  MoonOf(v, dt.y, dt.m, dt.d)

\* getMoonPhase() when the clock reads (date, hour): new Date() is read for
\* getFullYear(), getMonth() + 1 and getDate() only
MoonAt(v, date, hour) == MoonOf(v, date.y, date.m, date.d)

\* one call of getMoonPhase()
GetMoonPhase ==
  /\ moon.pc = "idle"
  /\ \E r \in {MoonAt(moon.variant, moon.date, moon.hour)} :
       moon' = [moon EXCEPT !.pc = "done", !.result = r, !.calls = @ + 1,
                            !.first = IF moon.calls = 0 THEN r ELSE @]
  /\ UNCHANGED <<gate, fetch, kpx, score, rules, srv, gems, pairs>>

\* time passes before the next scan of the same day
LaterToday ==
  /\ moon.pc = "done"
  /\ moon.calls < MaxCallsPerDay
  /\ moon' = [moon EXCEPT !.pc = "idle", !.hour = @ + (24 \div MaxCallsPerDay)]
  /\ UNCHANGED <<gate, fetch, kpx, score, rules, srv, gems, pairs>>

\* midnight passes before the next scan
NextDay ==
  /\ moon.pc = "done"
  /\ Tomorrow(moon.date) \in Dates
  /\ moon' = [moon EXCEPT !.pc = "idle", !.date = Tomorrow(moon.date), !.hour = 0,
                          !.calls = 0, !.first = MoonIdle.first]
  /\ UNCHANGED <<gate, fetch, kpx, score, rules, srv, gems, pairs>>

(***************************************************************************)
(* COSMIC PROVIDERS: KP INDEX                                              *)
(***************************************************************************)

\* the longest Kp table the endpoint of the model returns
MaxRows == 3

\* A row of the NOAA table, seen through row[1]: the header ("Kp"), a reading
\* (the number times 100), a reading that is no number ("n/a", null), a row
\* that is an object (no index 1), a row that is null.
KpRow(t, x) == [t |-> t, x100 |-> x]
KpRows == {KpRow("hdr", 0), KpRow("nan", 0), KpRow("obj", 0), KpRow("null", 0)}
          \cup {KpRow("data", x) : x \in {133, 300, 433, 567}}

Json(k, n, rows) == [k |-> k, n |-> n, rows |-> rows]
JNull == Json("null", 0, <<>>)
RowSeqs == UNION {[1..n -> KpRows] : n \in 0..MaxRows}

\* The JSON values a body can parse to: null, 0, 5, an object, "", a string
\* of 5 characters, an array of rows.
KpBodies == {JNull, Json("num", 0, <<>>), Json("num", 5, <<>>), Json("obj", 0, <<>>),
             Json("str", 0, <<>>), Json("str", 5, <<>>)}
            \cup {Json("arr", 0, rows) : rows \in RowSeqs}

KpReplies == {[outcome |-> o, body |-> JNull] : o \in Outcomes \ {"json"}}
             \cup {[outcome |-> "json", body |-> b] : b \in KpBodies}

\* !data
Truthy(data) == CASE data.k = "null" -> FALSE
                  [] data.k = "num" -> data.n # 0
                  [] data.k = "str" -> data.n # 0
                  [] OTHER -> TRUE

\* data.length: -1 stands for undefined
LengthOf(data) == CASE data.k = "arr" -> Len(data.rows)
                    [] data.k = "str" -> data.n
                    [] OTHER -> -1

\* data[data.length - 1]: a row, a one-character string, or undefined
LastOf(data) ==
  IF data.k = "arr" /\ Len(data.rows) > 0 THEN data.rows[Len(data.rows)]
  ELSE IF data.k = "str" /\ data.n > 0 THEN KpRow("char", 0)
  ELSE KpRow("undefined", 0)

KpValue(nan, x) == [nan |-> nan, x100 |-> x]
KpResult(threw, kp, level) == [threw |-> threw, kp |-> kp, level |-> level]

\* { kp: 3, level: 'Moderate' }
KpFallback == KpResult(FALSE, KpValue(FALSE, 300), "Moderate")

\* parseFloat(latest[1])
ParseReading(row) == IF row.t = "data" THEN KpValue(FALSE, row.x100)
                     ELSE KpValue(TRUE, 0)

\* kp>=5 ? 'Storm' : kp>=4 ? 'Active' : kp>=3 ? 'Moderate' : 'Quiet'
\* (every comparison with NaN is false)
LevelOf(kp) == IF ~kp.nan /\ kp.x100 >= 500 THEN "Storm"
               ELSE IF ~kp.nan /\ kp.x100 >= 400 THEN "Active"
               ELSE IF ~kp.nan /\ kp.x100 >= 300 THEN "Moderate"
               ELSE "Quiet"

\* part_001: kp >= 5 ? 'Storm' : kp >= 4 ? 'Active' : 'Moderate'
LevelOf_part001(kp) == IF ~kp.nan /\ kp.x100 >= 500 THEN "Storm"
                       ELSE IF ~kp.nan /\ kp.x100 >= 400 THEN "Active"
                       ELSE "Moderate"

KpThrew == KpResult(TRUE, KpValue(TRUE, 0), "TypeError")

\* const latest = data[data.length - 1]; const kp = parseFloat(latest[1]);
\* latest[1] throws a TypeError when latest is undefined or null
ReadLatest(data, v) ==
  LET latest == LastOf(data)
  IN IF data.k = "null" \/ latest.t \in {"undefined", "null"} THEN KpThrew
     ELSE LET kp == ParseReading(latest)
          IN KpResult(FALSE, kp, IF v = "part001" THEN LevelOf_part001(kp)
                                 ELSE LevelOf(kp))

\* if (!data || data.length < 2) return { kp: 3, level: 'Moderate' }
TooShort(data) == ~Truthy(data) \/ (LengthOf(data) >= 0 /\ LengthOf(data) < 2)

\* the value the variant's fetcher hands to getKpIndex
KpFetch(v, reply) ==
  LET r == Request(v, reply.outcome)
  IN IF r.kind = "json" THEN [kind |-> "json", data |-> reply.body]
     ELSE [kind |-> r.kind, data |-> JNull]

\* index.js and part_001: the guard, no try/catch
getKpIndex(v, reply) ==
  LET f == KpFetch(v, reply)
  IN IF TooShort(f.data) THEN KpFallback ELSE ReadLatest(f.data, v)

\* server.js: the guard inside try/catch
getKpIndex_server(v, reply) ==
  LET r == getKpIndex(v, reply)
  IN IF r.threw THEN KpFallback ELSE r

\* part_000: try/catch, no guard; fetchJSONWithRetry may throw
getKpIndex_part000(v, reply) ==
  LET f == KpFetch(v, reply)
      r == ReadLatest(f.data, v)
  IN IF f.kind = "throw" \/ r.threw THEN KpFallback ELSE r

KpOf(v, reply) ==
  IF v = "part000" THEN getKpIndex_part000(v, reply)
  ELSE IF v = "server" THEN getKpIndex_server(v, reply)
  ELSE getKpIndex(v, reply)

KpIdle == [variant |-> "index", pc |-> "idle",
           reply |-> [outcome |-> "timeout", body |-> JNull], result |-> KpFallback]

KpInit == \E v \in Variants : kpx = [KpIdle EXCEPT !.variant = v]

\* one call of getKpIndex(): the endpoint answers (for part_000: the answer
\* that ends fetchJSONWithRetry) and the function returns or throws
GetKpIndex(reply) ==
  /\ kpx.pc = "idle"
  /\ kpx' = [kpx EXCEPT !.pc = "done", !.reply = reply,
                        !.result = KpOf(kpx.variant, reply)]
  /\ UNCHANGED <<gate, fetch, moon, score, rules, srv, gems, pairs>>

(***************************************************************************)
(* SCORING ENGINE                                                          *)
(***************************************************************************)

\* an optional number: a field of the token that may be null or missing
Num(x) == [nul |-> FALSE, v |-> x]
NullNum == [nul |-> TRUE, v |-> 0]

\* x || 0
OrZero(x) == IF x.nul THEN 0 ELSE x.v
\* x || dflt
OrElse(x, dflt) == IF x.nul \/ x.v = 0 THEN dflt ELSE x.v

Abs(x) == IF x < 0 THEN -x ELSE x
Max(a, b) == IF a >= b THEN a ELSE b
Min(a, b) == IF a <= b THEN a ELSE b

\* Math.round(n / d) for n >= 0, d > 0
RoundDiv(n, d) == (2 * n + d) \div (2 * d)

RECURSIVE SumSeq(_)
SumSeq(q) == IF q = <<>> THEN 0 ELSE Head(q) + SumSeq(Tail(q))

\* period = 14
RsiPeriod == 14

\* calculateRSI / rsi, in tenths: 50 when fewer than period + 1 prices, 100
\* when there is no loss, else Math.round((100 - 100 / (1 + RS)) * 10) / 10,
\* which is 1000 * gains / (gains + losses) rounded
calculateRSI(prices) ==
  IF Len(prices) < RsiPeriod + 1 THEN 500
  ELSE LET ch == [i \in 1..RsiPeriod |-> prices[i + 1] - prices[i]]
           gains == SumSeq([i \in 1..RsiPeriod |-> IF ch[i] > 0 THEN ch[i] ELSE 0])
           losses == SumSeq([i \in 1..RsiPeriod |-> IF ch[i] > 0 THEN 0 ELSE Abs(ch[i])])
       IN IF losses = 0 THEN 1000
          ELSE RoundDiv(1000 * gains, gains + losses)

\* the nine weighted layers, in the order the code inserts them
LayerNames == <<"linguistics", "technical", "momentum", "sentiment", "liquidity",
                "whale", "orderbook", "cosmic", "risk">>

\* a weight table in which .08 was typed as .8
WeightsTypo == [linguistics |-> 80, technical |-> 12, momentum |-> 15, sentiment |-> 12,
                liquidity |-> 13, whale |-> 10, orderbook |-> 10, cosmic |-> 10,
                risk |-> 10]

\* the weights, in hundredths
Weights == [linguistics |-> 8, technical |-> 12, momentum |-> 15, sentiment |-> 12,
            liquidity |-> 13, whale |-> 10, orderbook |-> 10, cosmic |-> 10, risk |-> 10]

Linguistics(t) ==
  LET namePower == IF OrZero(t.nameLen) < 12 THEN 80 ELSE 60
      symbolPower == IF OrZero(t.symbolLen) < 6 THEN 75 ELSE 55
  IN RoundDiv(namePower + symbolPower, 2)

\* a technical layer that gives the top value to every RSI
TechnicalFlat(rsi10) == 85

Technical(rsi10) == IF rsi10 > 700 THEN 85 ELSE IF rsi10 < 300 THEN 40 ELSE 65

Momentum(pc) == IF pc > 20 THEN 90 ELSE IF pc > 0 THEN 70 ELSE 40

Sentiment(rank) == IF rank < 100 THEN 85 ELSE IF rank < 500 THEN 65 ELSE 45

Liquidity(vol) == IF vol > 10000000 THEN 85 ELSE IF vol > 1000000 THEN 65 ELSE 45

Whale(mc) == IF mc > 100000000 THEN 80 ELSE IF mc > 10000000 THEN 60 ELSE 40

Orderbook(ls) == IF ls > 50 THEN 75 ELSE IF ls > 30 THEN 55 ELSE 35

\* Math.max(0, Math.min(100, 50 + moonBonus + kpBonus)); a NaN kp compares false
Cosmic(moonPhase, kp) ==
  LET moonBonus == IF moonPhase = "Full Moon" THEN 15
                   ELSE IF moonPhase = "New Moon" THEN -10 ELSE 0
      kpBonus == IF ~kp.nan /\ kp.x100 > 500 THEN 10
                 ELSE IF ~kp.nan /\ kp.x100 < 200 THEN -5 ELSE 0
  IN Max(0, Min(100, 50 + moonBonus + kpBonus))

\* a risk layer that ignores the volatility
RiskFlat(pc) == 80

Risk(pc) == IF Abs(pc) > 50 THEN 30 ELSE IF Abs(pc) > 20 THEN 60 ELSE 80

\* let master = 0; for each layer master += L[k] * W[k]; Math.round(master)
Integration(L) ==
  RoundDiv(SumSeq([i \in 1..Len(LayerNames) |->
                     L[LayerNames[i]] * Weights[LayerNames[i]]]), 100)

\* integrateLayers (part_000) and analyze10Layers (index.js, server.js): the
\* same nine layers and the same weighted sum
integrateLayers(t, prices, moonPhase, kp) ==
  LET R == calculateRSI(prices)
      pc == OrZero(t.priceChange24h)
      L == [linguistics |-> Linguistics(t),
            technical |-> Technical(R),
            momentum |-> Momentum(pc),
            sentiment |-> Sentiment(OrElse(t.rank, 9999)),
            liquidity |-> Liquidity(OrZero(t.volumeUsd24h)),
            whale |-> Whale(OrZero(t.marketCap)),
            orderbook |-> Orderbook(OrZero(t.liquidityScore)),
            cosmic |-> Cosmic(moonPhase, kp),
            risk |-> Risk(pc)]
  IN CHOOSE out \in {[layers |-> l, integration |-> Integration(l), rsi |-> x] :
                       l \in {L}, x \in {R}} : TRUE

\* part_000 archetype: the last entry is _ => true
archetype(s, liquidity, sentiment) ==
  IF s >= 90 /\ liquidity > 80 THEN "Prophet"
  ELSE IF s >= 80 /\ liquidity > 60 THEN "Seer"
  ELSE IF s >= 70 /\ sentiment < 50 THEN "Trickster"
  ELSE IF s >= 60 /\ liquidity < 50 THEN "Observer"
  ELSE IF s >= 50 /\ s < 70 THEN "Guardian"
  ELSE IF s < 50 /\ liquidity > 70 THEN "Shadow"
  ELSE IF s < 40 /\ liquidity < 40 THEN "Echo"
  ELSE "Cultist"

\* index.js and server.js assignArchetype: the last entry is s < 30 and the
\* function ends with return 'Observer'
assignArchetype(s, v, st) ==
  IF s >= 90 /\ v > 80 THEN "Prophet"
  ELSE IF s >= 80 /\ v > 60 THEN "Seer"
  ELSE IF s >= 70 /\ st < 50 THEN "Trickster"
  ELSE IF s >= 60 /\ v < 50 THEN "Observer"
  ELSE IF s >= 50 /\ s < 70 THEN "Guardian"
  ELSE IF s < 50 /\ v > 70 THEN "Shadow"
  ELSE IF s < 40 /\ v < 40 THEN "Echo"
  ELSE IF s < 30 THEN "Cultist"
  ELSE "Observer"

ArchetypeOf(v, s, liquidity, sentiment) ==
  IF v = "part000" THEN archetype(s, liquidity, sentiment)
  ELSE assignArchetype(s, liquidity, sentiment)

\* a signal that tests the SELL condition before the ACCUMULATE one
signalSellFirst(master, rsi10, pc) ==
  IF master >= 80 /\ rsi10 < 700 /\ pc > 0 THEN "STRONG BUY"
  ELSE IF master >= 70 /\ pc > 5 THEN "BUY"
  ELSE IF master < 40 \/ rsi10 > 800 THEN "SELL"
  ELSE IF master >= 60 THEN "ACCUMULATE"
  ELSE "HOLD"

\* signal (part_000) and generateSignal (index.js, server.js); rsi in tenths
signal(master, rsi10, pc) ==
  IF master >= 80 /\ rsi10 < 700 /\ pc > 0 THEN "STRONG BUY"
  ELSE IF master >= 70 /\ pc > 5 THEN "BUY"
  ELSE IF master >= 60 THEN "ACCUMULATE"
  ELSE IF master < 40 \/ rsi10 > 800 THEN "SELL"
  ELSE "HOLD"

\* The inputs of one scoring call. Names and symbols are missing or long;
\* prices are absent, rising, falling, or mixed (RSI 75) over 15 points; the
\* market fields are either any combination of missing and a value of each
\* band of their layer, or any combination of missing and zero.
NameLens == {NullNum, Num(12)}
SymbolLens == {NullNum, Num(6)}
PriceSeries == {<<>>,
                [i \in 1..15 |-> 100 + i],
                [i \in 1..15 |-> 100 - i],
                [i \in 1..15 |-> 100 + 3 * ((i + 1) \div 2) - (i \div 2)]}
MoonPhases == {"Full Moon", "New Moon", "First Quarter"}
KpValues == {KpValue(TRUE, 0), KpValue(FALSE, 100), KpValue(FALSE, 300),
             KpValue(FALSE, 600)}

Market(pc, rank, vol, mc, ls) ==
  [priceChange24h |-> pc, rank |-> rank, volumeUsd24h |-> vol, marketCap |-> mc,
   liquidityScore |-> ls]

BandMarkets ==
  {Market(pc, rank, vol, mc, ls) :
     pc \in {NullNum, Num(10), Num(30), Num(60), Num(-30), Num(-60)},
     rank \in {NullNum, Num(50), Num(300)},
     vol \in {NullNum, Num(2000000), Num(20000000)},
     mc \in {NullNum, Num(20000000), Num(200000000)},
     ls \in {NullNum, Num(40), Num(60)}}

ZeroMarkets ==
  {Market(pc, rank, vol, mc, ls) :
     pc \in {NullNum, Num(0)}, rank \in {NullNum, Num(0)}, vol \in {NullNum, Num(0)},
     mc \in {NullNum, Num(0)}, ls \in {NullNum, Num(0)}}

Markets == BandMarkets \cup ZeroMarkets

Token(nameLen, symbolLen, mk) ==
  [nameLen |-> nameLen, symbolLen |-> symbolLen, priceChange24h |-> mk.priceChange24h,
   rank |-> mk.rank, volumeUsd24h |-> mk.volumeUsd24h, marketCap |-> mk.marketCap,
   liquidityScore |-> mk.liquidityScore]

Tokens == {Token(n, sy, mk) : n \in NameLens, sy \in SymbolLens, mk \in Markets}

NullToken == [nameLen |-> NullNum, symbolLen |-> NullNum, priceChange24h |-> NullNum,
              rank |-> NullNum, volumeUsd24h |-> NullNum, marketCap |-> NullNum,
              liquidityScore |-> NullNum]

NoLayers == [n \in {LayerNames[i] : i \in 1..Len(LayerNames)} |-> 0]

ScoreIdle == [pc |-> "idle", token |-> NullToken, prices |-> <<>>,
              moonPhase |-> "New Moon", kp |-> KpValue(FALSE, 300),
              layers |-> NoLayers, integration |-> 0, rsi |-> 500,
              signal |-> "", archetype |-> "", assignArchetype |-> ""]

\* one token goes through the engine as in analyzeSmallCaps / analyzeCached /
\* analyzeTokens: layers, RSI, signal from the composite, the same RSI and the
\* price change, archetype from the composite and two layers (archetype in
\* part_000, assignArchetype in index.js and server.js)
Analyze(t, prices, moonPhase, kp) ==
  /\ score.pc = "idle"
  /\ \E r \in {integrateLayers(t, prices, moonPhase, kp)} :
        score' = [pc |-> "done", token |-> t, prices |-> prices,
                  moonPhase |-> moonPhase, kp |-> kp,
                  layers |-> r.layers, integration |-> r.integration, rsi |-> r.rsi,
                  signal |-> signal(r.integration, r.rsi, OrZero(t.priceChange24h)),
                  archetype |-> archetype(r.integration, r.layers.liquidity,
                                          r.layers.sentiment),
                  assignArchetype |-> assignArchetype(r.integration, r.layers.liquidity,
                                                      r.layers.sentiment)]
  /\ UNCHANGED <<gate, fetch, moon, kpx, rules, srv, gems, pairs>>

\* a price history long enough for the RSI: fifteen rising prices
synthPricesLong(base, m5, h1) == [i \in 1..15 |-> (OrZero(base) + 1) * (100 + i)]

\* synthPrices(t.priceUsd, t.change5m, t.change1h), in hundredths of the
\* price unit: at most five prices, those that are not positive are dropped
synthPrices(base, m5, h1) ==
  LET b == OrZero(base)
  IN SelectSeq(<<b * 98, b * 99, b * 100, b * (100 + OrZero(m5)),
                 b * (100 + OrZero(h1))>>,
               LAMBDA x : x > 0)

\* The items of the small-caps list under the default configuration: fdv
\* present and at most FDV_LIMIT, liqUsd at least MIN_LIQ_USD. txns is
\* txns15m.buys + txns15m.sells.
SmallcapItems ==
  [nameLen : NameLens, symbolLen : SymbolLens, priceUsd : {NullNum, Num(5)},
   change5m : {NullNum, Num(9)},
   change1h : {NullNum, Num(-30), Num(-11), Num(5), Num(11), Num(30)},
   txns : {0, 20, 20000000},
   fdv : {Num(0), Num(12000), Num(500000)},
   liqUsd : {Num(2000), Num(40000), Num(65000), Num(200000)}]

\* one item of the small-caps list goes through analyzeSmallCaps (index.js) /
\* analyzeCached (part_000): synthetic prices, the token data built from the
\* item, then the engine, signal and archetype as for any token
AnalyzeItem(t, moonPhase, kp) ==
  /\ score.pc = "idle"
  /\ LET prices == synthPrices(t.priceUsd, t.change5m, t.change1h)
         tok == [nameLen |-> t.nameLen, symbolLen |-> t.symbolLen,
                 priceChange24h |-> Num(OrZero(t.change1h) * 2),
                 rank |-> Num(9999),
                 volumeUsd24h |-> Num(t.txns),
                 marketCap |-> Num(OrZero(t.fdv)),
                 liquidityScore |-> Num(Min(100, RoundDiv(OrZero(t.liqUsd), 1000)))]
     IN \E r \in {integrateLayers(tok, prices, moonPhase, kp)} :
          score' = [pc |-> "smallcap", token |-> tok, prices |-> prices,
                    moonPhase |-> moonPhase, kp |-> kp,
                    layers |-> r.layers, integration |-> r.integration, rsi |-> r.rsi,
                    signal |-> signal(r.integration, r.rsi, tok.priceChange24h.v),
                    archetype |-> archetype(r.integration, r.layers.liquidity,
                                            r.layers.sentiment),
                    assignArchetype |-> assignArchetype(r.integration,
                                                        r.layers.liquidity,
                                                        r.layers.sentiment)]
  /\ UNCHANGED <<gate, fetch, moon, kpx, rules, srv, gems, pairs>>

(***************************************************************************)
(* THE RULE TABLES, CALLED ON ANY ARGUMENTS                                *)
(***************************************************************************)

\* the scores and the axis values a caller can pass
MaxScore == 100
AxisValues == {0, 35, 39, 40, 45, 49, 50, 60, 61, 65, 70, 71, 80, 81, 85, 100}
SentimentValues == {0, 45, 49, 50, 65, 70, 85}

\* the RSI values (in tenths) and the price changes a caller can pass
RsiValues == {0, 299, 500, 699, 700, 701, 800, 801, 1000}
ChangeValues == {-10, 0, 1, 5, 6, 30}

RulesIdle == [pc |-> "idle", variant |-> "index", s |-> 0, v |-> 0, st |-> 0,
              archetype |-> "", rsi |-> 500, change |-> 0, signal |-> ""]

\* one call of archetype / assignArchetype, as generateMockTokens and the
\* analysis make it
Classify(v, s, liq, st) ==
  /\ rules.pc = "idle"
  /\ rules' = [RulesIdle EXCEPT !.pc = "done", !.variant = v, !.s = s, !.v = liq,
                                  !.st = st, !.archetype = ArchetypeOf(v, s, liq, st)]
  /\ UNCHANGED <<gate, fetch, moon, kpx, score, srv, gems, pairs>>

\* one call of signal / generateSignal (the same table in every variant)
Recommend(master, rsi10, pc) ==
  /\ rules.pc = "idle"
  /\ rules' = [RulesIdle EXCEPT !.pc = "signalled", !.s = master, !.rsi = rsi10,
                                  !.change = pc, !.signal = signal(master, rsi10, pc)]
  /\ UNCHANGED <<gate, fetch, moon, kpx, score, srv, gems, pairs>>

(***************************************************************************)
(* part_000: THE RESPONSE CACHE AND THE TWO API ROUTES                     *)
(***************************************************************************)

\* CFG.CACHE_TTL_MS
CACHE_TTL_MS == 15000

\* the clock of the model advances in steps of half the TTL
TicksPerTtl == 2
TickMs == CACHE_TTL_MS \div TicksPerTtl
\* how many steps the clock makes
MaxTicks == 3
\* requests in flight at once, and requests in one run of the model
MaxConcurrent == 2
MaxArrivals == 2

ReqIds == 1..MaxConcurrent

\* A payload is the object one pipeline run built: id is the run that built
\* it (JavaScript compares objects by identity), count the length of its
\* list, kpScored / kpReported the Kp values of an analysis (times 100).
Payload(id, count, kpScored, kpReported) ==
  [id |-> id, count |-> count, kpScored |-> kpScored, kpReported |-> kpReported]
Null == Payload(0, 0, 0, 0)

\* the lengths a filtered pair list can have: slice(0, CFG.LIMIT_RESULTS),
\* LIMIT_RESULTS read from the environment, is the only cap
ListCounts == {0, 501}

\* what the Kp endpoint can answer, as getKpIndex returns it: the fallback 3
\* when the call fails, or a reading
KpAnswers == {[ok |-> FALSE, x100 |-> 300], [ok |-> TRUE, x100 |-> 600]}

\* what the Dexscreener call can end in, as fetchJSONWithRetry returns it
DexAnswers == {[ok |-> FALSE, count |-> 0]} \cup {[ok |-> TRUE, count |-> c] : c \in ListCounts}

\* A request: n is its number (the run it starts builds payload n), fresh /
\* expired what its cache test saw when it arrived (expired: a payload is
\* stored and CACHE_TTL_MS or more have passed), calls / okCalls the upstream
\* calls it started and those that succeeded, kp and items the locals of
\* analyzeCached while it runs, status and payload its answer.
NoReq == [kind |-> "none", pc |-> "idle", n |-> 0, fresh |-> FALSE, expired |-> FALSE,
          calls |-> 0, okCalls |-> 0, kp |-> 0, items |-> Null, status |-> 0,
          payload |-> Null]

\* reqs holds the requests in progress, last the request answered last
SrvIdle == [now |-> CACHE_TTL_MS, ticks |-> 0, arrivals |-> 0,
            cache |-> [smallcaps |-> Null, smallcapsAt |-> 0,
                       analyze |-> Null, analyzeAt |-> 0],
            reqs |-> [r \in ReqIds |-> NoReq], last |-> NoReq]

\* Date.now() - at < CFG.CACHE_TTL_MS && payload
Fresh(now, at, payload) == now - at < CACHE_TTL_MS /\ payload # Null

\* time passes
Tick ==
  /\ srv.ticks < MaxTicks
  /\ srv' = [srv EXCEPT !.now = @ + TickMs, !.ticks = @ + 1]
  /\ UNCHANGED <<gate, fetch, moon, kpx, score, rules, gems, pairs>>

\* the slot a request that has to wait takes: the lowest one that is free
Slot(r) ==
  /\ srv.reqs[r].pc = "idle"
  /\ \A k \in 1..(r - 1) : srv.reqs[k].pc # "idle"

\* json(res, status, ...): the request is answered and leaves
Answer(q, status, payload) ==
  [q EXCEPT !.pc = "done", !.status = status, !.payload = payload, !.kp = 0,
            !.items = Null]

\* GET /api/smallcaps: getSmallcapsCached() up to its first await; on a hit
\* nothing is awaited and the handler answers
ArriveSmallcaps ==
  /\ srv.arrivals < MaxArrivals
  /\ LET c == srv.cache
         q == [NoReq EXCEPT !.kind = "smallcaps", !.n = srv.arrivals + 1]
     IN IF Fresh(srv.now, c.smallcapsAt, c.smallcaps)
        THEN srv' = [srv EXCEPT !.arrivals = @ + 1,
                       !.last = Answer([q EXCEPT !.fresh = TRUE], 200, c.smallcaps)]
        ELSE \E r \in ReqIds :
               /\ Slot(r)
               /\ srv' = [srv EXCEPT !.arrivals = @ + 1,
                            !.reqs[r] = [q EXCEPT !.pc = "dexWait",
                                                  !.expired = (c.smallcaps # Null),
                                                  !.calls = 1]]
  /\ UNCHANGED <<gate, fetch, moon, kpx, score, rules, gems, pairs>>

\* GET /api/analyze: analyzeCached() up to its first await, the first
\* getKpIndex(); on a hit nothing is awaited and the handler answers
ArriveAnalyze ==
  /\ srv.arrivals < MaxArrivals
  /\ LET c == srv.cache
         q == [NoReq EXCEPT !.kind = "analyze", !.n = srv.arrivals + 1]
     IN IF Fresh(srv.now, c.analyzeAt, c.analyze)
        THEN srv' = [srv EXCEPT !.arrivals = @ + 1,
                       !.last = Answer([q EXCEPT !.fresh = TRUE], 200, c.analyze)]
        ELSE \E r \in ReqIds :
               /\ Slot(r)
               /\ srv' = [srv EXCEPT !.arrivals = @ + 1,
                            !.reqs[r] = [q EXCEPT !.pc = "kp1Wait",
                                                  !.expired = (c.analyze # Null),
                                                  !.calls = 1]]
  /\ UNCHANGED <<gate, fetch, moon, kpx, score, rules, gems, pairs>>

\* the first getKpIndex() of analyzeCached returns; then getSmallcapsCached()
\* up to its await: on a hit the list is mapped and sorted and the second
\* getKpIndex() is called, on a miss buildSmallcaps() calls Dexscreener
KpFirstReply(r, a) ==
  /\ srv.reqs[r].pc = "kp1Wait"
  /\ LET c == srv.cache
         q == [srv.reqs[r] EXCEPT !.kp = a.x100, !.calls = @ + 1,
                                  !.okCalls = @ + (IF a.ok THEN 1 ELSE 0)]
     IN IF Fresh(srv.now, c.smallcapsAt, c.smallcaps)
        THEN srv' = [srv EXCEPT !.reqs[r] = [q EXCEPT !.pc = "kp2Wait",
                                                      !.items = c.smallcaps]]
        ELSE srv' = [srv EXCEPT !.reqs[r] = [q EXCEPT !.pc = "dexWait"]]
  /\ UNCHANGED <<gate, fetch, moon, kpx, score, rules, gems, pairs>>

\* a run that stamps the cache with the time of the attempt even when the
\* attempt failed
DexReplyStamps(r, a) ==
  /\ srv.reqs[r].pc = "dexWait"
  /\ srv' = [srv EXCEPT
               !.cache.smallcapsAt = srv.now,
               !.reqs[r] = NoReq,
               !.last = Answer(srv.reqs[r],
                               IF srv.reqs[r].kind = "smallcaps" THEN 502 ELSE 500,
                               Null)]
  /\ UNCHANGED <<gate, fetch, moon, kpx, score, rules, gems, pairs>>

\* fetchJSONWithRetry of buildSmallcaps ends. It returned: the list is
\* filtered, stored with Date.now() and, for /api/smallcaps, sent with 200;
\* analyzeCached goes on to its second getKpIndex(). It threw: nothing is
\* stored and the route's catch answers 502 (smallcaps) or 500 (analyze).
DexReply(r, a) ==
  /\ srv.reqs[r].pc = "dexWait"
  /\ LET q == srv.reqs[r]
         items == Payload(q.n, a.count, 0, 0)
     IN IF a.ok
        THEN IF q.kind = "smallcaps"
             THEN srv' = [srv EXCEPT
                            !.cache.smallcaps = items,
                            !.cache.smallcapsAt = srv.now,
                            !.reqs[r] = NoReq,
                            !.last = Answer([q EXCEPT !.okCalls = @ + 1], 200, items)]
             ELSE srv' = [srv EXCEPT
                            !.cache.smallcaps = items,
                            !.cache.smallcapsAt = srv.now,
                            !.reqs[r] = [q EXCEPT !.pc = "kp2Wait", !.okCalls = @ + 1,
                                                  !.calls = @ + 1, !.items = items]]
        ELSE srv' = [srv EXCEPT
                       !.reqs[r] = NoReq,
                       !.last = Answer(q, IF q.kind = "smallcaps" THEN 502 ELSE 500,
                                       Null)]
  /\ UNCHANGED <<gate, fetch, moon, kpx, score, rules, gems, pairs>>

\* the second getKpIndex() of analyzeCached returns: out is built, stored
\* with Date.now() and sent with 200
KpSecondReply(r, a) ==
  /\ srv.reqs[r].pc = "kp2Wait"
  /\ LET q == srv.reqs[r]
         out == Payload(q.n, q.items.count, q.kp, a.x100)
     IN srv' = [srv EXCEPT
                  !.cache.analyze = out,
                  !.cache.analyzeAt = srv.now,
                  !.reqs[r] = NoReq,
                  !.last = Answer([q EXCEPT !.okCalls = @ + (IF a.ok THEN 1 ELSE 0)],
                                  200, out)]
  /\ UNCHANGED <<gate, fetch, moon, kpx, score, rules, gems, pairs>>

(***************************************************************************)
(* part_001: THE DISCOVERY STEP getMicroCapGems                            *)
(***************************************************************************)

\* Math.random(): what a scan draws depends on the generator's hidden state,
\* here the seed the scan starts from. MathRandom(seed, k) is the k-th draw of
\* the scan in thousandths (0..999).
MaxSeed == 1
MathRandom(seed, k) == (seed * 617 + k * 389 + 131) % 1000

\* The longest list of arbitrary listings the endpoint of the model returns.
MaxListings == 4

\* A Pump.fun listing, seen through the fields the scan reads. A string is
\* [text, rnd]: its literal part and the digits a random draw appended (0:
\* none); "" is the missing string. The model leaves out the fields that follow
\* the same patterns (market_cap and address as second choices, name, symbol,
\* volume, created_timestamp, price_change_24h).
Listings ==
  {[mint |-> [text |-> "So1A", rnd |-> 0], usd_market_cap |-> Num(12000),
    holder_count |-> Num(120)],
   [mint |-> [text |-> "so1a", rnd |-> 0], usd_market_cap |-> Num(60000),
    holder_count |-> Num(120)],
   [mint |-> [text |-> "", rnd |-> 0], usd_market_cap |-> NullNum,
    holder_count |-> NullNum],
   [mint |-> [text |-> "So1B", rnd |-> 0], usd_market_cap |-> Num(600000),
    holder_count |-> Num(120)]}

\* What fetchAPI resolves to: null (network error, timeout, no JSON), a JSON
\* object, or an array of listings: every short list, and lists of one listing
\* around the length below which the scan falls back (5) and the length it
\* cuts at (20).
PumpReplies ==
  {JNull, Json("obj", 0, <<>>)}
  \cup {Json("arr", 0, tokens) :
          tokens \in UNION {[1..n -> Listings] : n \in 0..MaxListings}}
  \cup {Json("arr", 0, [i \in 1..n |-> l]) : n \in {5, 6, 19, 20, 21}, l \in Listings}

\* a scan that never falls back
NeverFallback(n) == n < 0

\* results.length < 5
NeedsFallback(n) == n < 5

\* Array.prototype.sort with the comparator (a, b) => key(a) - key(b), key[i]
\* being the key of s[i]: ascending, elements with equal keys keep their order
StableSort(s, key) ==
  LET Ahead(i) == {j \in 1..Len(s) : key[j] < key[i] \/ (j < i /\ key[j] = key[i])}
      place == [i \in 1..Len(s) |-> Cardinality(Ahead(i)) + 1]
  IN [k \in 1..Len(s) |-> s[CHOOSE i \in 1..Len(s) : place[i] = k]]

\* getMicroCapGems() when fetchAPI resolved to reply and Math.random starts
\* from seed. An entry of the list is [item, from]: item is the object the code
\* builds, from is where the model saw it built ("listing": the Pump.fun loop,
\* "fallback": the generated gems); from is no field of the object.
getMicroCapGems(reply, seed) ==
  LET tokens == IF reply.k = "arr"
                THEN SubSeq(reply.rows, 1, Min(20, Len(reply.rows))) ELSE <<>>
      FromListing(i) ==
        LET token == tokens[i]
            mcap == OrElse(token.usd_market_cap, MathRandom(seed, 3 * i) * 90)
            sc == IF mcap < 10000 THEN 95 ELSE IF mcap < 50000 THEN 85
                  ELSE IF mcap < 100000 THEN 75 ELSE 65
        IN [item |->
              [contract_address |->
                 IF token.mint.text # "" THEN token.mint
                 ELSE [text |-> "pump", rnd |-> 1 + MathRandom(seed, 3 * i + 1)],
               fdv |-> mcap,
               liquidity |-> RoundDiv(mcap * 15, 100),
               holders |-> OrElse(token.holder_count,
                                  (MathRandom(seed, 3 * i + 2) * 150) \div 1000 + 10),
               score |-> sc,
               signal |-> IF sc > 85 THEN "STRONG BUY" ELSE IF sc > 70 THEN "BUY"
                          ELSE IF sc > 60 THEN "ACCUMULATE" ELSE "WATCH"],
            from |-> "listing"]
      Generated(i) ==
        LET mcap == MathRandom(seed, 100 + 4 * i) * 90 + 5000
            sc == IF mcap < 20000 THEN 90 ELSE IF mcap < 50000 THEN 75 ELSE 60
        IN [item |->
              [contract_address |->
                 [text |-> "Sol", rnd |-> 1 + MathRandom(seed, 101 + 4 * i)],
               fdv |-> mcap,
               liquidity |-> RoundDiv(mcap * 15, 100),
               holders |-> (MathRandom(seed, 102 + 4 * i) * 150) \div 1000 + 10,
               score |-> sc + (MathRandom(seed, 103 + 4 * i) * 10) \div 1000,
               signal |-> IF sc > 85 THEN "STRONG BUY" ELSE IF sc > 70 THEN "BUY"
                          ELSE "WATCH"],
            from |-> "fallback"]
      listed == SelectSeq([i \in 1..Len(tokens) |-> FromListing(i)],
                          LAMBDA e : e.item.fdv < 500000)
      results == IF NeedsFallback(Len(listed))
                 THEN listed \o [i \in 1..10 |-> Generated(i - 1)] ELSE listed
  IN CHOOSE out \in
       {SubSeq(r, 1, Min(20, Len(r))) :
          r \in {StableSort(results, [i \in 1..Len(results) |->
                                             results[i].item.fdv])}} : TRUE

\* reply: what Pump.fun answers during the scans of the model; out: the list
\* of the latest scan; first: the list of the first scan
GemsIdle == [pc |-> "idle", reply |-> JNull, out |-> <<>>, first |-> <<>>]

\* GET /api/analyze runs one scan
Scan(reply, seed) ==
  /\ gems.pc = "idle"
  /\ \E r \in {getMicroCapGems(reply, seed)} :
       gems' = [pc |-> "first", reply |-> reply, out |-> r, first |-> r]
  /\ UNCHANGED <<gate, fetch, moon, kpx, score, rules, srv, pairs>>

\* a second scan that gets the same answer from Pump.fun
ScanAgain(seed) ==
  /\ gems.pc = "first"
  /\ gems' = [gems EXCEPT !.pc = "second",
                          !.out = getMicroCapGems(gems.reply, seed)]
  /\ UNCHANGED <<gate, fetch, moon, kpx, score, rules, srv, pairs>>

(***************************************************************************)
(* index.js, part_000: THE DEXSCREENER PIPELINE                            *)
(***************************************************************************)

\* The longest list of pairs the search of the model returns.
MaxPairs == 3

\* A pair of the Dexscreener search, seen through the fields the pipeline
\* reads: chainId, labels (pump: some label matches /pump/i), fdv,
\* liquidity.usd, pairCreatedAt (here in minutes since the epoch),
\* txns.m5.buys / sells and priceChange.m5. txns.m15 and priceChange.h1 enter
\* the score in the same way and are left out.
Pair(chainId, pump, fdv, liq, created, buys, sells, change) ==
  [chainId |-> chainId, pump |-> pump, fdv |-> fdv, liq |-> liq,
   pairCreatedAt |-> created, buys |-> buys, sells |-> sells, change |-> change]

\* Pairs on both sides of every filter, at the clock reading now
DexPairs(now) ==
  {Pair("solana", TRUE, Num(100000), Num(5000), Num(now - 60), 9, 2, Num(10)),
   Pair("solana", FALSE, Num(400000), Num(5000), Num(now - 700), 1, 5, NullNum),
   Pair("solana", TRUE, NullNum, Num(5000), Num(now - 60), 3, 0, Num(10)),
   Pair("solana", TRUE, Num(100000), NullNum, Num(now - 60), 4, 0, Num(10)),
   Pair("solana", TRUE, Num(100000), Num(5000), NullNum, 5, 0, Num(10)),
   Pair("ethereum", TRUE, Num(100000), Num(5000), Num(now - 60), 6, 0, Num(10)),
   Pair("solana", TRUE, Num(600000), Num(5000), Num(now - 60), 7, 0, Num(10)),
   Pair("solana", TRUE, Num(100000), Num(5000), Num(now - 800), 8, 0, Num(10)),
   Pair("solana", TRUE, Num(100000), Num(1000), Num(now - 60), 9, 0, Num(10))}

\* The configuration a deployment can have: the defaults of the variant, and
\* MIN_LIQ_USD = 0 and LIMIT_RESULTS = 2 set in the environment
PairConfigs(v) ==
  [FDV_LIMIT : {500000},
   MIN_LIQ_USD : {IF v = "index" THEN 2000 ELSE 3000, 0},
   MAX_AGE_MIN : {720},
   LIMIT_RESULTS : {IF v = "index" THEN 50 ELSE 60, 2},
   REQUIRE_PUMPFUN : BOOLEAN]

\* buildSmallCapsList (index.js) / buildSmallcaps (part_000) when the search
\* resolved to reply ({pairs: [...]} is the array) and Date.now() is now. An
\* entry of the result is [item, of]: item is the object the last map builds,
\* of is the pair p it was built from. score is five times the code's.
buildSmallCapsList(cfg, reply, now) ==
  LET found == IF reply.k = "arr" THEN reply.rows ELSE <<>>
      minutesSince(p) == now - OrZero(p.pairCreatedAt)
      list == SelectSeq(found, LAMBDA p :
                /\ p.chainId = "solana"
                /\ cfg.REQUIRE_PUMPFUN => p.pump
                /\ ~p.fdv.nul /\ p.fdv.v <= cfg.FDV_LIMIT
                /\ OrZero(p.liq) >= cfg.MIN_LIQ_USD
                /\ minutesSince(p) <= cfg.MAX_AGE_MIN)
      scored == [i \in 1..Len(list) |->
                   [p |-> list[i],
                    score |-> 5 * (list[i].buys - list[i].sells) + OrZero(list[i].change)]]
  IN CHOOSE out \in
       {[i \in 1..Min(cfg.LIMIT_RESULTS, Len(r)) |->
           [item |-> [fdv |-> r[i].p.fdv, liqUsd |-> r[i].p.liq,
                      ageMinutes |-> minutesSince(r[i].p), score |-> r[i].score],
            of |-> r[i].p]] :
          r \in {StableSort(scored, [i \in 1..Len(scored) |-> -scored[i].score])}} : TRUE

\* now: Date.now() in minutes
PairsIdle == [pc |-> "idle", variant |-> "index", now |-> 30000000,
              cfg |-> CHOOSE c \in PairConfigs("index") : TRUE, out |-> <<>>,
              items |-> 0, returned |-> FALSE, tokens |-> <<>>]

\* GET /api/smallcaps: one run of the pipeline. The search of index.js
\* resolves to null when it fails; that of part_000 can throw, and then the
\* pipeline returns no list.
BuildList(v, cfg, reply, threw) ==
  /\ pairs.pc = "idle"
  /\ threw => v = "part000" /\ reply = JNull
  /\ pairs' = [pairs EXCEPT
                 !.pc = IF threw THEN "threw" ELSE "done",
                 !.variant = v, !.cfg = cfg,
                 !.out = IF threw THEN <<>>
                         ELSE buildSmallCapsList(cfg, reply, pairs.now)]
  /\ UNCHANGED <<gate, fetch, moon, kpx, score, rules, srv, gems>>

\* Solana pump pairs that pass the default filters. Their trade counts order
\* them one way in the list, their price changes another way in the analysis.
\* In the analysis the m5 numbers of a pair are its m15 and h1 numbers too.
ScoredPairs(now) ==
  {Pair("solana", TRUE, Num(100000), Num(5000), Num(now - 60), 9, 2, Num(-30)),
   Pair("solana", TRUE, Num(100000), Num(5000), Num(now - 60), 1, 5, Num(15)),
   Pair("solana", TRUE, Num(100000), Num(5000), Num(now - 60), 3, 3, NullNum),
   Pair("ethereum", TRUE, Num(100000), Num(5000), Num(now - 60), 6, 0, Num(10))}

\* layers.integration of one entry e of the list: the token data
\* analyzeSmallCaps / analyzeCached build from the item, on synthetic prices
masterScore(e, moonPhase, kp) ==
  LET tok == [nameLen |-> Num(12), symbolLen |-> Num(6),
              priceChange24h |-> Num(OrZero(e.of.change) * 2),
              rank |-> Num(9999),
              volumeUsd24h |-> Num(e.of.buys + e.of.sells),
              marketCap |-> Num(OrZero(e.item.fdv)),
              liquidityScore |-> Num(Min(100, RoundDiv(OrZero(e.item.liqUsd), 1000)))]
  IN integrateLayers(tok, synthPrices(Num(5), e.of.change, e.of.change),
                     moonPhase, kp).integration

\* items.map(...) then sort((a, b) => b.masterScore - a.masterScore). A token
\* is [from, masterScore]: from is the place in the list of the item it was
\* built from.
analyzeSmallCaps(list, moonPhase, kp) ==
  LET analyzed == [i \in 1..Len(list) |->
                     [from |-> i, masterScore |-> masterScore(list[i], moonPhase, kp)]]
  IN StableSort(analyzed, [i \in 1..Len(analyzed) |-> -analyzed[i].masterScore])

\* GET /api/analyze of index.js and part_000 (cache empty): the cosmic
\* snapshot, the list, then the tokens. The search of part_000 can throw.
AnalyzeSmallCaps(v, cfg, reply, threw, dt, kp) ==
  /\ pairs.pc = "idle"
  /\ threw => v = "part000" /\ reply = JNull
  /\ \E list \in {IF threw THEN <<>> ELSE buildSmallCapsList(cfg, reply, pairs.now)} :
       pairs' = [pairs EXCEPT
                   !.pc = IF threw THEN "threw" ELSE "analyzed",
                   !.variant = v, !.cfg = cfg, !.out = list,
                   !.items = Len(list), !.returned = ~threw,
                   !.tokens = IF threw THEN <<>>
                              ELSE analyzeSmallCaps(list, MoonAt(v, dt, 0).phase, kp)]
  /\ UNCHANGED <<gate, fetch, moon, kpx, score, rules, srv, gems>>

\* the most trending coins CoinGecko returns in the model, apart from one
\* answer longer than the ten that are analysed
MaxTrending == 2

\* A trending coin of server.js: coinData tells whether getTokenDetails
\* returned its data, t is the data analyze10Layers reads
TrendingCoins ==
  {[coinData |-> FALSE, t |-> NullToken],
   [coinData |-> TRUE,
    t |-> Token(Num(12), Num(6), Market(Num(30), Num(50), Num(20000000),
                                        Num(200000000), Num(60)))],
   [coinData |-> TRUE,
    t |-> Token(Num(12), Num(6), Market(Num(-60), Num(300), NullNum, NullNum, NullNum))]}

\* generateMockTokens(): ten tokens that come from no list
generateMockTokens ==
  [i \in 1..10 |-> [from |-> 0,
                    masterScore |-> <<87, 82, 76, 71, 68, 64, 59, 55, 51, 47>>[i]]]

\* analyzeTokens() of server.js. getMoonPhase() is called first, inside the
\* async function: when it throws, analyzeTokens rejects and nothing is
\* fetched. Otherwise: mock tokens for an empty trending list, else the first
\* ten coins, those without coinData skipped, sorted by masterScore.
analyzeTokens(moonPhase, kp, trending) ==
  IF moonPhase.threw THEN [returned |-> FALSE, items |-> 0, tokens |-> <<>>]
  ELSE IF Len(trending) = 0
    THEN [returned |-> TRUE, items |-> 0, tokens |-> generateMockTokens]
  ELSE
    LET tokensToAnalyze == SubSeq(trending, 1, Min(10, Len(trending)))
        kept == SelectSeq([i \in 1..Len(tokensToAnalyze) |-> i],
                          LAMBDA i : tokensToAnalyze[i].coinData)
        analyzedTokens ==
          [k \in 1..Len(kept) |->
             [from |-> kept[k],
              masterScore |-> integrateLayers(tokensToAnalyze[kept[k]].t, <<>>,
                                              moonPhase.phase, kp).integration]]
    IN [returned |-> TRUE, items |-> Len(tokensToAnalyze),
        tokens |-> StableSort(analyzedTokens,
                              [k \in 1..Len(analyzedTokens) |->
                                 -analyzedTokens[k].masterScore])]

\* GET /api/analyze of server.js on the date dt, CoinGecko ready to answer
\* with trending: a rejected analyzeTokens() is answered 500
AnalyzeTokens(dt, kp, trending) ==
  /\ pairs.pc = "idle"
  /\ \E r \in {analyzeTokens(MoonAt("server", dt, 0), kp, trending)} :
       pairs' = [pairs EXCEPT
                   !.pc = IF r.returned THEN "analyzed" ELSE "failed",
                   !.variant = "server", !.items = r.items,
                   !.returned = r.returned, !.tokens = r.tokens]
  /\ UNCHANGED <<gate, fetch, moon, kpx, score, rules, srv, gems>>

(***************************************************************************)
(* SPECIFICATIONS                                                          *)
(***************************************************************************)

GateNext == \/ \E code \in Codes : ValidateCodeRequest(code)
            \/ BadJsonRequest
            \/ \E route \in {"/api/smallcaps", "/api/analyze"}, scanned \in BOOLEAN :
                 ScanRequest(route, scanned)

\* the access-code gate of each variant
InitGate ==
  /\ GateInit /\ fetch = FetchIdle /\ moon = MoonIdle /\ kpx = KpIdle
  /\ score = ScoreIdle /\ rules = RulesIdle /\ srv = SrvIdle
  /\ gems = GemsIdle /\ pairs = PairsIdle

SpecGate == InitGate /\ [][GateNext]_vars

FetchNext == \/ \E n \in 1..MaxAttempts : FetchCall(n)
             \/ \E o \in Outcomes : FetchAttempt(o)
             \/ FetchTimer

\* one call of each variant's fetcher
InitFetch ==
  /\ FetchInit /\ gate = GateIdle /\ moon = MoonIdle /\ kpx = KpIdle
  /\ score = ScoreIdle /\ rules = RulesIdle /\ srv = SrvIdle
  /\ gems = GemsIdle /\ pairs = PairsIdle

SpecFetch == InitFetch /\ [][FetchNext]_vars

MoonNext == GetMoonPhase \/ LaterToday \/ NextDay

\* getMoonPhase() of each variant on the dates of the calendar
InitMoon ==
  /\ MoonInit /\ gate = GateIdle /\ fetch = FetchIdle /\ kpx = KpIdle
  /\ score = ScoreIdle /\ rules = RulesIdle /\ srv = SrvIdle
  /\ gems = GemsIdle /\ pairs = PairsIdle

SpecMoon == InitMoon /\ [][MoonNext]_vars

KpNext == kpx.pc = "idle" /\ \E reply \in KpReplies : GetKpIndex(reply)

\* getKpIndex() of each variant on the answers of the endpoint
InitKp ==
  /\ KpInit /\ gate = GateIdle /\ fetch = FetchIdle /\ moon = MoonIdle
  /\ score = ScoreIdle /\ rules = RulesIdle /\ srv = SrvIdle
  /\ gems = GemsIdle /\ pairs = PairsIdle

SpecKp == InitKp /\ [][KpNext]_vars

ScoreNext ==
  /\ score.pc = "idle"
  /\ \/ \E t \in Tokens, prices \in PriceSeries, moonPhase \in MoonPhases,
           kp \in KpValues :
          Analyze(t, prices, moonPhase, kp)
     \/ \E t \in SmallcapItems, moonPhase \in MoonPhases, kp \in KpValues :
          AnalyzeItem(t, moonPhase, kp)

\* the scoring engine on one token
InitScore ==
  /\ score = ScoreIdle /\ gate = GateIdle /\ fetch = FetchIdle /\ moon = MoonIdle
  /\ kpx = KpIdle /\ rules = RulesIdle /\ srv = SrvIdle
  /\ gems = GemsIdle /\ pairs = PairsIdle

SpecScore == InitScore /\ [][ScoreNext]_vars

RulesNext ==
  /\ rules.pc = "idle"
  /\ \/ \E v \in Variants \ {"part001"}, s \in 0..MaxScore, liq \in AxisValues,
           st \in SentimentValues :
          Classify(v, s, liq, st)
     \/ \E master \in 0..MaxScore, rsi10 \in RsiValues, pc \in ChangeValues :
          Recommend(master, rsi10, pc)

\* the archetype table and the signal table on any arguments
InitRules ==
  /\ rules = RulesIdle /\ gate = GateIdle /\ fetch = FetchIdle /\ moon = MoonIdle
  /\ kpx = KpIdle /\ score = ScoreIdle /\ srv = SrvIdle
  /\ gems = GemsIdle /\ pairs = PairsIdle

SpecRules == InitRules /\ [][RulesNext]_vars

SrvNext ==
  \/ Tick
  \/ ArriveSmallcaps
  \/ ArriveAnalyze
  \/ \E r \in ReqIds, a \in KpAnswers : KpFirstReply(r, a)
  \/ \E r \in ReqIds, a \in DexAnswers : DexReply(r, a)
  \/ \E r \in ReqIds, a \in KpAnswers : KpSecondReply(r, a)

\* part_000 serving /api/smallcaps and /api/analyze
InitCache ==
  /\ srv = SrvIdle /\ gems = GemsIdle /\ pairs = PairsIdle /\ gate = GateIdle
  /\ fetch = FetchIdle /\ moon = MoonIdle /\ kpx = KpIdle /\ score = ScoreIdle
  /\ rules = RulesIdle

SpecCache == InitCache /\ [][SrvNext]_vars

GemsNext == \/ \E reply \in PumpReplies, seed \in 0..MaxSeed : Scan(reply, seed)
            \/ \E seed \in 0..MaxSeed : ScanAgain(seed)

\* getMicroCapGems of part_001, scanning twice
InitGems ==
  /\ gems = GemsIdle /\ gate = GateIdle /\ fetch = FetchIdle /\ moon = MoonIdle
  /\ kpx = KpIdle /\ score = ScoreIdle /\ rules = RulesIdle /\ srv = SrvIdle
  /\ pairs = PairsIdle

SpecGems == InitGems /\ [][GemsNext]_vars

\* The same with the scheduling the code gives: the event loop runs the
\* handler of a request that has arrived, so the first scan happens. No
\* timer or listener of part_001 starts a scan by itself: a later scan needs
\* a later request, which nothing guarantees. FeedReplies: the failed
\* answers and the short lists of Pump.fun.
FeedReplies ==
  {JNull, Json("obj", 0, <<>>)}
  \cup {Json("arr", 0, tokens) :
          tokens \in UNION {[1..n -> Listings] : n \in 0..(MaxListings - 2)}}

FirstScan == \E reply \in FeedReplies, seed \in 0..MaxSeed : Scan(reply, seed)

GemsLiveNext == FirstScan \/ \E seed \in 0..MaxSeed : ScanAgain(seed)

SpecGemsLive == InitGems /\ [][GemsLiveNext]_vars /\ WF_vars(FirstScan)

\* the dates new Date() shows when a scan runs
ScanDates == {[y |-> BaseYear, m |-> 1, d |-> 1], [y |-> BaseYear, m |-> 1, d |-> 14],
              [y |-> BaseYear, m |-> 6, d |-> 22]}

PairsNext ==
  \/ /\ pairs.pc = "idle"
     /\ \E v \in {"index", "part000"} :
          \E cfg \in PairConfigs(v), threw \in BOOLEAN,
             reply \in {JNull, Json("obj", 0, <<>>)}
                       \cup {Json("arr", 0, ps) :
                               ps \in UNION {[1..n -> DexPairs(pairs.now)] :
                                               n \in 0..MaxPairs}} :
            BuildList(v, cfg, reply, threw)
  \/ /\ pairs.pc = "idle"
     /\ \E v \in {"index", "part000"} :
          \E cfg \in PairConfigs(v), threw \in BOOLEAN, dt \in ScanDates,
             kp \in KpValues,
             reply \in {JNull}
                       \cup {Json("arr", 0, ps) :
                               ps \in UNION {[1..n -> ScoredPairs(pairs.now)] :
                                               n \in 0..MaxPairs}} :
            AnalyzeSmallCaps(v, cfg, reply, threw, dt, kp)
  \/ /\ pairs.pc = "idle"
     /\ \E dt \in ScanDates, kp \in KpValues,
           trending \in UNION {[1..n -> TrendingCoins] : n \in 0..MaxTrending}
                        \cup {[i \in 1..11 |-> c] : c \in TrendingCoins} :
          AnalyzeTokens(dt, kp, trending)

\* buildSmallCapsList of index.js and buildSmallcaps of part_000
InitPairs ==
  /\ pairs = PairsIdle /\ gems = GemsIdle /\ gate = GateIdle /\ fetch = FetchIdle
  /\ moon = MoonIdle /\ kpx = KpIdle /\ score = ScoreIdle /\ rules = RulesIdle
  /\ srv = SrvIdle

SpecPairs == InitPairs /\ [][PairsNext]_vars

(***************************************************************************)
(* PROPERTIES                                                              *)
(***************************************************************************)

\* The requests that are running the pipeline of a cache key: buildSmallcaps
\* between the miss and the store (for either route), analyzeCached between
\* its miss and its store.
SmallcapsRuns == {r \in ReqIds : srv.reqs[r].pc = "dexWait"}
AnalyzeRuns == {r \in ReqIds : /\ srv.reqs[r].kind = "analyze"
                               /\ srv.reqs[r].pc \in {"kp1Wait", "dexWait", "kp2Wait"}}

\* C1: single-flight cache. At no time are two pipeline runs for the same
\* cache key in progress: a request that arrives while a run for its key is
\* under way waits for that run and starts no second one.
SingleFlight == Cardinality(SmallcapsRuns) <= 1 /\ Cardinality(AnalyzeRuns) <= 1

Stored(c, kind) == IF kind = "smallcaps" THEN c.smallcaps ELSE c.analyze
StoredAt(c, kind) == IF kind = "smallcaps" THEN c.smallcapsAt ELSE c.analyzeAt

\* the request that arrives in this step: the one answered at once, or the
\* one that took a slot
Arrived ==
  IF srv'.last.n = srv'.arrivals THEN srv'.last
  ELSE srv'.reqs[CHOOSE r \in ReqIds : srv'.reqs[r].n = srv'.arrivals]

CacheWindowStep ==
  /\ srv'.arrivals # srv.arrivals =>
       LET q == Arrived
           old == Stored(srv.cache, q.kind)
           age == srv.now - StoredAt(srv.cache, q.kind)
       IN /\ (old # Null /\ age < CACHE_TTL_MS) =>
               (/\ q.pc = "done" /\ q.status = 200 /\ q.payload = old
                /\ q.calls = 0 /\ srv'.cache = srv.cache)
          /\ (old # Null /\ age >= CACHE_TTL_MS) =>
               (q.pc # "done" /\ q.calls = 1)
  /\ (srv'.last # srv.last /\ srv'.last.expired) =>
       LET q == srv'.last
       IN /\ q.status = 200 /\ q.payload.id = q.n
          /\ Stored(srv'.cache, q.kind) = q.payload

\* C2: cache freshness window. A request issued less than CACHE_TTL_MS after
\* a payload of its key was stored is answered at once with that very
\* payload, makes no upstream call and leaves the cache alone; a request
\* issued CACHE_TTL_MS or more after the store starts the pipeline, and when
\* it is answered the answer is 200 with the payload its own run built, which
\* is then the stored payload.
CacheWindow == [][CacheWindowStep]_vars

\* C3: single-use access codes. Outside development mode no code is granted
\* more than once, and a request with a code that was already granted is
\* answered 401 "already used".
SingleUseCodes ==
  ~gate.dev =>
    /\ \A c \in Codes : gate.grants[c] <= 1
    /\ gate.last.wasUsed =>
         (/\ ~gate.last.valid
          /\ gate.last.status = 401
          /\ gate.last.message = MsgUsed(gate.variant))

\* a code was granted once and a later request with it has just been rejected
SingleUseWitness ==
  /\ ~gate.dev
  /\ gate.last.wasUsed
  /\ gate.last.code \in VALID_CODES(gate.variant)
  /\ gate.grants[gate.last.code] = 1
  /\ ~gate.last.valid
  /\ gate.last.message = MsgUsed(gate.variant)

\* C4: the fetcher never throws. Whatever the upstream outcomes, a finished
\* call of the fetcher has returned the parsed JSON value or the no-data
\* value null, never an exception.
FetcherNeverThrows == fetch.pc = "done" => fetch.result.kind \in {"json", "null"}

RECURSIVE Pow2(_)
Pow2(n) == IF n = 0 THEN 1 ELSE 2 * Pow2(n - 1)

\* the k-th request of the call in progress failed
AttemptFailed(k) == Request(fetch.variant, fetch.outcomes[k]).kind = "throw"

\* C5: retry schedule. The attempts made never exceed N and each but the
\* last made has failed; the k-th wait is 250 * 2^(k-1) ms; a wait follows
\* every failed attempt except the N-th; a call whose last attempt failed has
\* made exactly N attempts and N-1 waits and has finished (with the error of
\* that attempt); a call whose last attempt succeeded has finished with its
\* value.
RetrySchedule ==
  LET made == Len(fetch.outcomes)
      waited == Len(fetch.waits)
  IN /\ made <= fetch.attempts
     /\ \A k \in 1..(made - 1) : AttemptFailed(k)
     /\ \A k \in 1..waited : fetch.waits[k] = InitialDelayMs * Pow2(k - 1)
     /\ fetch.pc = "attempt" => (waited = made /\ fetch.i = made)
     /\ fetch.pc = "waiting" => (waited = made /\ made < fetch.attempts)
     /\ fetch.pc = "done" =>
          (/\ made >= 1
           /\ waited = made - 1
           /\ fetch.result = Request(fetch.variant, fetch.outcomes[made])
           /\ AttemptFailed(made) => made = fetch.attempts)

\* the default three attempts all failed: two waits of 250 and 500 ms, then
\* the call ends
RetryWitness ==
  /\ fetch.variant = "part000"
  /\ fetch.pc = "done"
  /\ fetch.attempts = DefaultAttempts
  /\ Len(fetch.outcomes) = DefaultAttempts
  /\ \A k \in 1..DefaultAttempts : fetch.outcomes[k] = "timeout"
  /\ fetch.waits = <<250, 500>>

\* C6: degraded scan. A GET /api/analyze whose upstream calls all failed is
\* answered with status 200 and a token list that is not empty.
DegradedScan ==
  LET q == srv.last
  IN (q.kind = "analyze" /\ q.calls > 0 /\ q.okCalls = 0) =>
       (q.status = 200 /\ q.payload.count > 0)

\* C7: the composite score of every token, moon phase and Kp value is an
\* integer from 0 to 100.
CompositeInRange == score.pc = "done" => score.integration \in 0..100

\* a token with every field missing, no prices and a Kp that is NaN was scored
CompositeWitness ==
  /\ score.pc = "done"
  /\ score.token = NullToken
  /\ score.prices = <<>>
  /\ score.kp.nan
  /\ score.moonPhase = "New Moon"
  /\ score.integration = 51

PhaseNames == {phases[i] : i \in 1..Len(phases)}

\* C8: the moon phase calculation always works. On every date getMoonPhase
\* returns without throwing, with one of the eight phase names and an
\* illumination from 0 to 100.
MoonAlwaysWorks ==
  moon.pc = "done" =>
    /\ ~moon.result.threw
    /\ moon.result.phase \in PhaseNames
    /\ moon.result.illumination \in 0..100

\* what the claim calls an unavailable endpoint or a malformed payload: no
\* JSON body, a JSON value that is no array of rows, fewer than two rows, or
\* a latest row whose reading is no number
Malformed(reply) ==
  \/ reply.outcome # "json"
  \/ reply.body.k # "arr"
  \/ Len(reply.body.rows) < 2
  \/ LastOf(reply.body).t # "data"

\* C9: Kp fallback. getKpIndex never throws and never returns a kp that is
\* not a number, and on an unavailable endpoint or a malformed payload it
\* returns {kp: 3, level: 'Moderate'}.
KpFallbackOnMalformed ==
  kpx.pc = "done" =>
    /\ ~kpx.result.threw
    /\ ~kpx.result.kp.nan
    /\ Malformed(kpx.reply) => kpx.result = KpFallback

\* the rule table as the claim states it: eight named predicates in a fixed
\* order, the last one unconditional
RuleOrder == <<"Prophet", "Seer", "Trickster", "Observer", "Guardian", "Shadow",
               "Echo", "Cultist">>

RuleHolds(name, s, liquidity, sentiment) ==
  CASE name = "Prophet" -> s >= 90 /\ liquidity > 80
    [] name = "Seer" -> s >= 80 /\ liquidity > 60
    [] name = "Trickster" -> s >= 70 /\ sentiment < 50
    [] name = "Observer" -> s >= 60 /\ liquidity < 50
    [] name = "Guardian" -> s >= 50 /\ s < 70
    [] name = "Shadow" -> s < 50 /\ liquidity > 70
    [] name = "Echo" -> s < 40 /\ liquidity < 40
    [] name = "Cultist" -> TRUE

FirstMatch(s, liquidity, sentiment) ==
  RuleOrder[CHOOSE i \in 1..Len(RuleOrder) :
              /\ RuleHolds(RuleOrder[i], s, liquidity, sentiment)
              /\ \A j \in 1..(i - 1) : ~RuleHolds(RuleOrder[j], s, liquidity, sentiment)]

\* C10: archetype rule table. The archetype of every (score, liquidity,
\* sentiment) is the first rule that holds in the order Prophet, Seer,
\* Trickster, Observer, Guardian, Shadow, Echo, Cultist, Cultist being the
\* unconditional catch-all.
ArchetypeTable ==
  rules.pc = "done" => rules.archetype = FirstMatch(rules.s, rules.v, rules.st)

\* the recommendation table as the claim states it: five labels in the order
\* they are checked, the last one unconditional
LabelOrder == <<"STRONG BUY", "BUY", "ACCUMULATE", "SELL", "HOLD">>

LabelHolds(name, master, rsi10, pc) ==
  CASE name = "STRONG BUY" -> master >= 80 /\ rsi10 < 700 /\ pc > 0
    [] name = "BUY" -> master >= 70 /\ pc > 5
    [] name = "ACCUMULATE" -> master >= 60
    [] name = "SELL" -> master < 40 \/ rsi10 > 800
    [] name = "HOLD" -> TRUE

\* C11: recommendation priority. Every (composite, rsi, priceChange) gets
\* exactly one label, the first in the order STRONG BUY, BUY, ACCUMULATE, SELL,
\* HOLD whose condition holds; a composite of 60 or more is never SELL.
SignalPriority ==
  rules.pc = "signalled" =>
    /\ \E i \in 1..Len(LabelOrder) :
         /\ rules.signal = LabelOrder[i]
         /\ LabelHolds(LabelOrder[i], rules.s, rules.rsi, rules.change)
         /\ \A j \in 1..(i - 1) :
              ~LabelHolds(LabelOrder[j], rules.s, rules.rsi, rules.change)
    /\ rules.s >= 60 => rules.signal # "SELL"

\* a composite of 60 or more with rsi above 80, where ACCUMULATE and SELL both
\* apply, was labelled ACCUMULATE
SignalPriorityWitness ==
  /\ rules.pc = "signalled"
  /\ rules.s >= 60 /\ rules.rsi > 800
  /\ LabelHolds("SELL", rules.s, rules.rsi, rules.change)
  /\ rules.signal = "ACCUMULATE"

\* C16: moon phase determinism. On one calendar date every call of
\* getMoonPhase returns what the first call of that date returned (the same
\* phase name and illumination), whatever the time of day.
MoonDeterministic ==
  moon.pc = "done" => moon.result = moon.first

\* a second call, later on the same date, returned the phase and the
\* illumination of the first
MoonDeterministicWitness ==
  /\ moon.pc = "done" /\ moon.calls >= 2 /\ moon.hour >= 12
  /\ ~moon.result.threw
  /\ moon.result.phase = moon.first.phase
  /\ moon.result.illumination = moon.first.illumination

\* C18: gated access. A response carries token data only if some earlier
\* validate-code request was granted.
GatedAccess ==
  gate.last.tokens => \E c \in Codes : gate.grants[c] > 0

\* the layers that read a market field of the token
MarketLayers == {"momentum", "sentiment", "liquidity", "whale", "orderbook", "risk"}

\* the token with the numeric value 0 in every market field
ZeroOf(t) ==
  [t EXCEPT !.priceChange24h = Num(0), !.rank = Num(0), !.volumeUsd24h = Num(0),
            !.marketCap = Num(0), !.liquidityScore = Num(0)]

\* C20: missing data is not zero. When every market field of the token is
\* null, each market-dependent layer has a value different from the one the
\* same layer gives to the same token with 0 in those fields.
MissingIsNotZero ==
  (/\ score.pc = "done"
   /\ score.token.priceChange24h.nul /\ score.token.rank.nul
   /\ score.token.volumeUsd24h.nul /\ score.token.marketCap.nul
   /\ score.token.liquidityScore.nul) =>
    \A l \in MarketLayers :
      score.layers[l] #
        integrateLayers(ZeroOf(score.token), score.prices, score.moonPhase,
                        score.kp).layers[l]

\* toLowerCase() of an identifier
Normalize(a) ==
  [a EXCEPT !.text = CASE @ = "So1A" -> "so1a" [] @ = "So1B" -> "so1b" [] OTHER -> @]

\* the listings the scan reads (the first 20) that carry an identifier
Identified ==
  {i \in 1..Min(20, Len(gems.reply.rows)) : gems.reply.rows[i].mint.text # ""}

\* C12: deduplication. When two listings of the upstream answer have the same
\* identifier up to letter case, the list of the scan has exactly one entry
\* with that identifier (none only if the filter removed them all).
Deduplicated ==
  gems.pc # "idle" =>
    \A i, j \in Identified :
      (/\ i < j
       /\ Normalize(gems.reply.rows[i].mint) = Normalize(gems.reply.rows[j].mint)) =>
        Cardinality({n \in 1..Len(gems.out) :
                       Normalize(gems.out[n].item.contract_address)
                         = Normalize(gems.reply.rows[i].mint)})
          = IF \E k \in Identified :
                 /\ Normalize(gems.reply.rows[k].mint) = Normalize(gems.reply.rows[i].mint)
                 /\ OrZero(gems.reply.rows[k].usd_market_cap) < 500000
            THEN 1 ELSE 0

\* the entries of a list that came from listings, and the generated ones
Real(list) == SelectSeq(list, LAMBDA e : e.from = "listing")
Synthetic(list) == SelectSeq(list, LAMBDA e : e.from = "fallback")

MarkFields == {"source", "origin", "synthetic", "isSynthetic", "mock", "isMock",
               "fallback", "generated"}

\* C14: synthetic candidates are distinguishable. An entry of the list has a
\* field marking its origin exactly when it did not come from a listing.
SyntheticMarked ==
  gems.pc # "idle" =>
    \A n \in 1..Len(gems.out) :
      (gems.out[n].from = "fallback")
        <=> (DOMAIN gems.out[n].item \cap MarkFields # {})

\* C15: scoring determinism. Two scans that get the same answer from Pump.fun
\* give the same metrics, score and signal to the entries that came from
\* listings.
ScanDeterministic ==
  gems.pc = "second" => Real(gems.out) = Real(gems.first)

\* C19: reference scenario. The listing with a fully diluted value of 12000
\* gets an FDV-based score of at least 90.
ReferenceScenario ==
  gems.pc # "idle" =>
    \A n \in 1..Len(gems.out) :
      (gems.out[n].from = "listing" /\ gems.out[n].item.fdv = 12000) =>
        gems.out[n].item.score >= 90

\* C17: configured filters and cap. Every item of the list is built from a
\* Solana pair, has an fdv that is present and at most FDV_LIMIT, a liquidity
\* that is present and at least MIN_LIQ_USD, a creation time that is present
\* and an age of at most MAX_AGE_MIN; the list has at most LIMIT_RESULTS items.
FiltersAndCap ==
  pairs.pc = "done" =>
    /\ Len(pairs.out) <= pairs.cfg.LIMIT_RESULTS
    /\ \A n \in 1..Len(pairs.out) :
         LET e == pairs.out[n]
         IN /\ e.of.chainId = "solana"
            /\ ~e.item.fdv.nul /\ e.item.fdv.v <= pairs.cfg.FDV_LIMIT
            /\ ~e.item.liqUsd.nul /\ e.item.liqUsd.v >= pairs.cfg.MIN_LIQ_USD
            /\ ~e.of.pairCreatedAt.nul /\ e.item.ageMinutes <= pairs.cfg.MAX_AGE_MIN

\* the effect of one request on USED_CODES, read from the response
UsedCodesStep ==
  LET q == gate'.last
  IN /\ (q.valid /\ ~gate.dev) =>
          (q.code \notin gate.USED_CODES
           /\ gate'.USED_CODES = gate.USED_CODES \cup {q.code})
     /\ (q.valid /\ gate.dev) => gate'.USED_CODES = gate.USED_CODES
     /\ ~q.valid => gate'.USED_CODES = gate.USED_CODES
     /\ gate'.USED_CODES \subseteq VALID_CODES(gate'.variant)

\* C27: effect of a validation request on the used-code set. A rejected
\* request leaves USED_CODES unchanged, a granted request outside development
\* mode adds exactly the presented code, a granted request in development mode
\* adds nothing, and USED_CODES stays a subset of VALID_CODES.
UsedCodesFrame == [][UsedCodesStep]_vars

\* outside development mode two codes were granted and recorded, and an
\* unknown code has just been rejected
UsedCodesWitness ==
  /\ ~gate.dev
  /\ Cardinality(gate.USED_CODES) = 2
  /\ gate.last.code = "WRONG_CODE" /\ ~gate.last.valid

\* C28: tight composite range. The composite of every token, price series,
\* moon phase and Kp value lies between 41 and 80, so it is never below 40
\* (the SELL rule) and never 90 or more (the Prophet archetype).
CompositeTight ==
  score.pc = "done" =>
    /\ score.integration \in 41..80
    /\ ~(score.integration < 40) /\ ~(score.integration >= 90)
    /\ score.archetype # "Prophet" /\ score.assignArchetype # "Prophet"

\* the lowest composite: every layer at its lowest value
CompositeLowest ==
  /\ score.pc = "done" /\ score.integration = 41
  /\ score.layers.technical = 40 /\ score.layers.momentum = 40
  /\ score.layers.cosmic = 35 /\ score.layers.risk = 30

\* C29: STRONG BUY is never issued for an analysed token. The signal computed
\* from the engine's composite and the RSI that fed the technical layer is
\* never STRONG BUY, whatever price change is passed with them, because a
\* composite of 80 needs an RSI above 70.
NoStrongBuy ==
  score.pc = "done" =>
    /\ score.signal # "STRONG BUY"
    /\ score.integration >= 80 => score.rsi > 700
    /\ \A pc \in ChangeValues :
         signal(score.integration, score.rsi, pc) # "STRONG BUY"

\* the highest composite, with a rising price: the RSI is above 70 and the
\* signal is BUY
NoStrongBuyWitness ==
  /\ score.pc = "done" /\ score.integration = 80
  /\ score.rsi > 700 /\ OrZero(score.token.priceChange24h) > 0
  /\ score.signal = "BUY"

\* C30: in the Dexscreener small-caps pipeline with the default configuration
\* every token has RSI exactly 50 and a composite of at most 69, and its signal
\* is ACCUMULATE or HOLD.
SmallcapSignals ==
  score.pc = "smallcap" =>
    /\ Len(score.prices) <= 5
    /\ score.rsi = 500
    /\ score.integration <= 69
    /\ score.signal \in {"ACCUMULATE", "HOLD"}

\* an item with a rising price and more than ten million transactions got the
\* composite 69 and the signal ACCUMULATE
SmallcapHighest ==
  /\ score.pc = "smallcap" /\ score.integration = 69
  /\ Len(score.prices) = 5 /\ score.rsi = 500
  /\ score.signal = "ACCUMULATE"

\* C25: cosmic snapshot consistency. In every answer of /api/analyze the Kp
\* value reported next to the tokens is the Kp value the tokens' cosmic layer
\* was computed with.
CosmicConsistent ==
  (srv.last.kind = "analyze" /\ srv.last.status = 200) =>
    srv.last.payload.kpReported = srv.last.payload.kpScored

\* the step in which a request is answered with a failure
FailedRunStep ==
  /\ (srv'.last # srv.last /\ srv'.last.status \in {500, 502}) =>
       (/\ srv'.cache = srv.cache
        /\ srv'.last.payload = Null
        /\ srv'.last.calls > 0)
  /\ (/\ srv'.arrivals # srv.arrivals
      /\ srv.last.status \in {500, 502}
      /\ Arrived.kind = srv.last.kind
      /\ ~Fresh(srv.now, StoredAt(srv.cache, Arrived.kind),
                Stored(srv.cache, Arrived.kind))) =>
       (Arrived.pc # "done" /\ Arrived.calls = 1)

ResultOrdering ==
  pairs.pc \in {"analyzed", "failed"} =>
    /\ pairs.returned
    /\ Len(pairs.tokens) = pairs.items
    /\ {pairs.tokens[i].from : i \in 1..Len(pairs.tokens)} = 1..pairs.items
    /\ \A i \in 1..(Len(pairs.tokens) - 1) :
         pairs.tokens[i].masterScore >= pairs.tokens[i + 1].masterScore

\* C21: recall store bound. What the server keeps of its scans never exceeds
\* 500 entries, and once the scanned results hold more than 500 distinct
\* identifiers it keeps exactly 500 of them.
RecallBound ==
  LET kept == Stored(srv.cache, "analyze").count
  IN /\ kept <= 500
     /\ (/\ srv.last.kind = "analyze" /\ srv.last.status = 200
         /\ srv.last.payload.count > 500) => kept = 500

\* C23: stream reconnect. The feed of new tokens is never left disconnected
\* for good: after the connection a scan used has ended, the server connects
\* to the feed again by itself.
FeedReconnects == (gems.pc = "first") ~> (gems.pc = "second")

====
